---- MODULE Spec2Model ----
(***************************************************************************)
(* Model of penrose's Ring<T> (src/core/data_types.rs): an ordered         *)
(* VecDeque of elements plus a `focused` index, with the Selector          *)
(* protocol and the Direction enum.                                        *)
(*                                                                         *)
(* Indices are 0-based as in the source; element i of the VecDeque is      *)
(* elems[i + 1] of the TLA+ sequence.  usize arithmetic is modelled at a   *)
(* reduced width (UsizeBits); every length and index argument stays        *)
(* strictly below USIZE_MAX, as it does on a real machine.  Integer        *)
(* overflow panics when the build has overflow checks (debug profile) and  *)
(* wraps when it has not (release profile): `checked` is the profile.      *)
(***************************************************************************)
EXTENDS Integers, Sequences, FiniteSets, TLC

\* ---- bounds of the model ----
MaxLen == 3
NumElems == 2
UsizeBits == 3

Elems == 1..NumElems
MaxIndex == MaxLen + 1
MaxChain == MaxLen + 1
USIZE_MOD == 2 ^ UsizeBits
USIZE_MAX == USIZE_MOD - 1
WinIds == {1}

\* the predicates handed to Selector::Condition, each as the set of the values
\* that satisfy it: e == v, e % 2 == 0 and a predicate nothing satisfies
Conds ==
    {{v} : v \in Elems} \cup {{v \in Elems : v % 2 = 0}} \cup {{}}

Directions == {"Forward", "Backward"}

\* reverse that hands the direction back as it came
reverse_same(d) == d

\* Direction::reverse
reverse(d) == IF d = "Forward" THEN "Backward" ELSE "Forward"

\* Selector<T>: Focused | Index(usize) | WinId(WinId) | Condition(&dyn Fn(&T) -> bool)
\* A predicate is modelled by the set of element values that satisfy it.
Sel(kind, idx, cond) == [kind |-> kind, idx |-> idx, cond |-> cond]
NoSel == Sel("-", 0, {})
Selectors ==
    {Sel("Focused", 0, {})}
    \cup {Sel("Index", i, {}) : i \in 0..MaxIndex}
    \cup {Sel("WinId", w, {}) : w \in WinIds}
    \cup {Sel("Condition", 0, p) : p \in Conds}

\* ---- library behaviour the ring relies on ----
\* usize subtraction without overflow checks
wrapping_sub(a, b) == (a - b + USIZE_MOD) % USIZE_MOD

\* usize addition without overflow checks
wrapping_add(a, b) == (a + b) % USIZE_MOD

\* VecDeque::get
get(elems, i) == IF i < Len(elems) THEN <<elems[i + 1]>> ELSE << >>

\* VecDeque::rotate_right(1)
rotate_right(elems) ==
    IF Len(elems) = 0 THEN elems
    ELSE <<elems[Len(elems)]>> \o SubSeq(elems, 1, Len(elems) - 1)

\* VecDeque::rotate_left(1)
rotate_left(elems) ==
    IF Len(elems) = 0 THEN elems
    ELSE Tail(elems) \o <<Head(elems)>>

\* VecDeque::remove: the sequence without position i (unchanged when out of range)
vec_remove(elems, i) ==
    IF i < Len(elems)
    THEN SubSeq(elems, 1, i) \o SubSeq(elems, i + 2, Len(elems))
    ELSE elems

\* VecDeque::insert at a position index <= len
vec_insert(elems, index, e) ==
    SubSeq(elems, 1, index) \o <<e>> \o SubSeq(elems, index + 1, Len(elems))

\* VecDeque::swap of two in-range positions
vec_swap(elems, i, j) ==
    [elems EXCEPT ![i + 1] = elems[j + 1], ![j + 1] = elems[i + 1]]

\* ---- results of a call ----
\* elements and focused after the call, the Option returned (<< >> is None,
\* <<v>> is Some(v)), the bool returned, and the panic raised ("none" if none)
Res(elems, foc, r, b, f) ==
    [elements |-> elems, focused |-> foc, ret |-> r, retBool |-> b, fault |-> f]

\* ---- Ring<T> ----
\* Ring::focused
focused_elem(elems, foc) == get(elems, foc)

\* would_wrap comparing focused with len instead of len - 1
would_wrap_off_by_one(elems, foc, dir, chk) ==
    LET wrap_back == foc = 0 /\ dir = "Backward"
        wrap_forward == foc = Len(elems) /\ dir = "Forward"
    IN Res(elems, foc, << >>, wrap_back \/ wrap_forward, "none")

\* Ring::would_wrap
would_wrap(elems, foc, dir, chk) ==
    IF Len(elems) = 0 /\ chk
    THEN Res(elems, foc, << >>, FALSE, "overflow")
    ELSE LET wrap_back == foc = 0 /\ dir = "Backward"
             wrap_forward == foc = wrapping_sub(Len(elems), 1) /\ dir = "Forward"
         IN Res(elems, foc, << >>, wrap_back \/ wrap_forward, "none")

\* rotate with the two directions exchanged
rotate_swapped(elems, dir) ==
    IF Len(elems) = 0 THEN elems
    ELSE IF dir = "Forward" THEN rotate_left(elems) ELSE rotate_right(elems)

\* rotate that turns the same way for both directions
rotate_both_right(elems, dir) ==
    IF Len(elems) = 0 THEN elems ELSE rotate_right(elems)

\* Ring::rotate
rotate(elems, dir) ==
    IF Len(elems) = 0 THEN elems
    ELSE IF dir = "Forward" THEN rotate_right(elems) ELSE rotate_left(elems)

\* next_index that stops at the ends instead of wrapping
next_index_nowrap(elems, foc, dir, chk) ==
    IF dir = "Forward"
    THEN [fault |-> "none", val |-> wrapping_add(foc, 1)]
    ELSE [fault |-> "none", val |-> IF foc = 0 THEN 0 ELSE foc - 1]

\* Ring::next_index: [fault, val]
next_index(elems, foc, dir, chk) ==
    IF Len(elems) = 0 /\ chk
    THEN [fault |-> "overflow", val |-> foc]
    ELSE LET max == wrapping_sub(Len(elems), 1)
         IN IF dir = "Forward"
            THEN IF foc = max
                 THEN [fault |-> "none", val |-> 0]
                 ELSE IF foc = USIZE_MAX /\ chk
                      THEN [fault |-> "overflow", val |-> foc]
                      ELSE [fault |-> "none", val |-> wrapping_add(foc, 1)]
            ELSE IF foc = 0
                 THEN [fault |-> "none", val |-> max]
                 ELSE [fault |-> "none", val |-> foc - 1]

\* Ring::cycle_focus
cycle_focus(elems, foc, dir, chk) ==
    LET ni == next_index(elems, foc, dir, chk)
    IN IF ni.fault # "none"
       THEN Res(elems, foc, << >>, FALSE, ni.fault)
       ELSE Res(elems, ni.val, focused_elem(elems, ni.val), FALSE, "none")

\* drag_focused that moves the focus but not the element
drag_focused_no_move(elems, foc, dir, chk) ==
    cycle_focus(elems, foc, dir, chk)

\* drag_focused that exchanges the two end elements instead of rotating
drag_focused_swap_at_edge(elems, foc, dir, chk) ==
    LET ni == next_index(elems, foc, dir, chk)
    IN IF ni.fault # "none"
       THEN Res(elems, foc, << >>, FALSE, ni.fault)
       ELSE IF foc < Len(elems) /\ ni.val < Len(elems)
            THEN cycle_focus(vec_swap(elems, foc, ni.val), foc, dir, chk)
            ELSE Res(elems, foc, << >>, FALSE, "bounds")

\* drag_focused that rotates the whole ring wherever the focus is
drag_focused_rotate_always(elems, foc, dir, chk) ==
    LET ni == next_index(elems, foc, dir, chk)
    IN IF ni.fault # "none"
       THEN Res(elems, foc, << >>, FALSE, ni.fault)
       ELSE cycle_focus(rotate(elems, dir), foc, dir, chk)

\* Ring::drag_focused
drag_focused(elems, foc, dir, chk) ==
    LET ni == next_index(elems, foc, dir, chk)
    IN IF ni.fault # "none"
       THEN Res(elems, foc, << >>, FALSE, ni.fault)
       ELSE IF foc = 0 /\ dir = "Backward"
            THEN cycle_focus(rotate(elems, dir), foc, dir, chk)
            ELSE IF ni.val = 0 /\ dir = "Forward"
                 THEN cycle_focus(rotate(elems, dir), foc, dir, chk)
                 ELSE IF foc < Len(elems) /\ ni.val < Len(elems)
                      THEN cycle_focus(vec_swap(elems, foc, ni.val), foc, dir, chk)
                      ELSE Res(elems, foc, << >>, FALSE, "bounds")

\* insert that moves focused along with the element it pointed at
insert_follow_focus(elems, foc, index, e) ==
    IF index <= Len(elems)
    THEN Res(vec_insert(elems, index, e),
             IF index <= foc THEN wrapping_add(foc, 1) ELSE foc, << >>, FALSE, "none")
    ELSE Res(elems, foc, << >>, FALSE, "bounds")

\* Ring::insert
insert(elems, foc, index, e) ==
    IF index <= Len(elems)
    THEN Res(vec_insert(elems, index, e), foc, << >>, FALSE, "none")
    ELSE Res(elems, foc, << >>, FALSE, "bounds")

\* clamp_focus that never moves the focus
clamp_focus_never(elems, foc, chk) ==
    [fault |-> "none", val |-> foc]

\* Ring::clamp_focus: [fault, val]
clamp_focus(elems, foc, chk) ==
    IF foc > 0
    THEN IF Len(elems) = 0 /\ chk
         THEN [fault |-> "overflow", val |-> foc]
         ELSE IF foc >= wrapping_sub(Len(elems), 1)
              THEN [fault |-> "none", val |-> foc - 1]
              ELSE [fault |-> "none", val |-> foc]
    ELSE [fault |-> "none", val |-> foc]

\* Ring::element_by: the index of the first element satisfying cond, as an Option
element_by(elems, cond) ==
    LET hits == {i \in 0..(Len(elems) - 1) : elems[i + 1] \in cond}
    IN IF hits = {} THEN << >>
       ELSE <<CHOOSE i \in hits : \A j \in hits : i <= j>>

\* Ring::element
element(elems, foc, s) ==
    CASE s.kind = "WinId" -> Res(elems, foc, << >>, FALSE, "none")
      [] s.kind = "Focused" -> Res(elems, foc, focused_elem(elems, foc), FALSE, "none")
      [] s.kind = "Index" -> Res(elems, foc, get(elems, s.idx), FALSE, "none")
      [] s.kind = "Condition" ->
            LET hit == element_by(elems, s.cond)
            IN Res(elems, foc, IF hit = << >> THEN << >> ELSE get(elems, hit[1]),
                   FALSE, "none")

\* Ring::element_mut
element_mut(elems, foc, s) ==
    CASE s.kind = "Focused" -> Res(elems, foc, get(elems, foc), FALSE, "none")
      [] s.kind = "Index" -> Res(elems, foc, get(elems, s.idx), FALSE, "none")
      [] s.kind = "WinId" -> Res(elems, foc, << >>, FALSE, "none")
      [] s.kind = "Condition" ->
            LET hit == element_by(elems, s.cond)
            IN Res(elems, foc, IF hit = << >> THEN << >> ELSE get(elems, hit[1]),
                   FALSE, "none")

\* focus that reads the identifier of Selector::WinId as an index
focus_win_id_as_index(elems, foc, s) ==
    CASE s.kind = "WinId" -> Res(elems, s.idx, focused_elem(elems, s.idx), FALSE, "none")
      [] s.kind = "Focused" -> Res(elems, foc, focused_elem(elems, foc), FALSE, "none")
      [] s.kind = "Index" -> Res(elems, s.idx, focused_elem(elems, s.idx), FALSE, "none")
      [] s.kind = "Condition" ->
            LET hit == element_by(elems, s.cond)
            IN IF hit # << >>
               THEN Res(elems, hit[1], <<elems[hit[1] + 1]>>, FALSE, "none")
               ELSE Res(elems, foc, << >>, FALSE, "none")

\* Ring::focus
focus(elems, foc, s) ==
    CASE s.kind = "WinId" -> Res(elems, foc, << >>, FALSE, "none")
      [] s.kind = "Focused" -> Res(elems, foc, focused_elem(elems, foc), FALSE, "none")
      [] s.kind = "Index" -> Res(elems, s.idx, focused_elem(elems, s.idx), FALSE, "none")
      [] s.kind = "Condition" ->
            LET hit == element_by(elems, s.cond)
            IN IF hit # << >>
               THEN Res(elems, hit[1], <<elems[hit[1] + 1]>>, FALSE, "none")
               ELSE Res(elems, foc, << >>, FALSE, "none")

\* Selector::Focused and Selector::Index arms of Ring::remove
remove_at(elems, foc, i, chk) ==
    LET c == get(elems, i)
        rest == vec_remove(elems, i)
        cl == clamp_focus(rest, foc, chk)
    IN Res(rest, cl.val, IF cl.fault = "none" THEN c ELSE << >>, FALSE, cl.fault)

\* Ring::remove
remove(elems, foc, s, chk) ==
    CASE s.kind = "WinId" -> Res(elems, foc, << >>, FALSE, "none")
      [] s.kind = "Focused" -> remove_at(elems, foc, foc, chk)
      [] s.kind = "Index" -> remove_at(elems, foc, s.idx, chk)
      [] s.kind = "Condition" ->
            LET hit == element_by(elems, s.cond)
            IN IF hit # << >>
               THEN remove_at(elems, foc, hit[1], chk)
               ELSE Res(elems, foc, << >>, FALSE, "none")

\* ---- the state machine ----
VARIABLES
    elements,   \* Ring::elements
    focused,    \* Ring::focused
    checked,    \* the build panics on integer overflow
    fault,      \* the panic that ended the program, "none" while it runs
    ret,        \* Option returned by the last call
    retBool,    \* bool returned by the last call
    last,       \* the last call and its arguments
    pre,        \* elements and focused before the last call
    chain,      \* the run of consecutive calls of one operation ending in the last call
    retDir      \* Direction returned by the last call, "-" if it returned none

vars == <<elements, focused, checked, fault, ret, retBool, last, pre, chain, retDir>>

Snap(elems, foc) == [elements |-> elems, focused |-> foc]
NoSnap == Snap(<< >>, 0)
Call(op, dir, sel, index, elem) ==
    [op |-> op, dir |-> dir, sel |-> sel, index |-> index, elem |-> elem]
NoChain == [op |-> "-", args |-> << >>, start |-> NoSnap]

SeqsUpTo(n) == UNION {[1..k -> Elems] : k \in 0..n}

\* Ring::new
Init ==
    /\ elements \in SeqsUpTo(MaxLen)
    /\ focused = 0
    /\ checked \in BOOLEAN
    /\ fault = "none"
    /\ ret = << >>
    /\ retBool = FALSE
    /\ last = Call("new", "-", NoSel, 0, 0)
    /\ pre = Snap(elements, 0)
    /\ chain = NoChain
    /\ retDir = "-"

\* the run of calls after this one: consecutive calls of one operation with one
\* argument, or rotate(Forward) followed by rotate(Backward); arg is "" when the
\* call does not take part in runs
NextChain(op, arg) ==
    IF arg = "" THEN NoChain
    ELSE IF /\ chain.op = op
            /\ Len(chain.args) < MaxChain
            /\ \/ \A i \in 1..Len(chain.args) : chain.args[i] = arg
               \/ op = "rotate" /\ chain.args = <<"Forward">> /\ arg = "Backward"
         THEN [chain EXCEPT !.args = Append(@, arg)]
         ELSE [op |-> op, args |-> <<arg>>, start |-> Snap(elements, focused)]

\* one call on the ring, with result r
Step(call, arg, r) ==
    /\ fault = "none"
    /\ elements' = r.elements
    /\ focused' = r.focused
    /\ ret' = r.ret
    /\ retBool' = r.retBool
    /\ fault' = r.fault
    /\ last' = call
    /\ pre' = Snap(elements, focused)
    /\ chain' = NextChain(call.op, arg)
    /\ retDir' = "-"
    /\ UNCHANGED checked

\* Direction::reverse called on a direction; the ring is not involved
Reverse ==
    \E d \in Directions :
        /\ fault = "none"
        /\ retDir' = reverse(d)
        /\ last' = Call("reverse", d, NoSel, 0, 0)
        /\ pre' = Snap(elements, focused)
        /\ chain' = NoChain
        /\ ret' = << >>
        /\ retBool' = FALSE
        /\ UNCHANGED <<elements, focused, checked, fault>>

WouldWrap ==
    \E d \in Directions :
        Step(Call("would_wrap", d, NoSel, 0, 0), "",
             would_wrap(elements, focused, d, checked))

Rotate ==
    \E d \in Directions :
        Step(Call("rotate", d, NoSel, 0, 0), d,
             Res(rotate(elements, d), focused, << >>, FALSE, "none"))

CycleFocus ==
    \E d \in Directions :
        Step(Call("cycle_focus", d, NoSel, 0, 0), d,
             cycle_focus(elements, focused, d, checked))

DragFocused ==
    \E d \in Directions :
        Step(Call("drag_focused", d, NoSel, 0, 0), d,
             drag_focused(elements, focused, d, checked))

Insert ==
    /\ Len(elements) < MaxLen
    /\ \E index \in 0..(Len(elements) + 1), e \in Elems :
        Step(Call("insert", "-", NoSel, index, e), "",
             insert(elements, focused, index, e))

Element ==
    \E s \in Selectors :
        Step(Call("element", "-", s, 0, 0), "", element(elements, focused, s))

ElementMut ==
    \E s \in Selectors :
        Step(Call("element_mut", "-", s, 0, 0), "", element_mut(elements, focused, s))

Focus ==
    \E s \in Selectors :
        Step(Call("focus", "-", s, 0, 0), "", focus(elements, focused, s))

Remove ==
    \E s \in Selectors :
        Step(Call("remove", "-", s, 0, 0),
             IF s.kind = "Focused" THEN "Focused" ELSE "",
             remove(elements, focused, s, checked))

Next ==
    \/ WouldWrap
    \/ Rotate
    \/ CycleFocus
    \/ DragFocused
    \/ Insert
    \/ Element
    \/ ElementMut
    \/ Focus
    \/ Remove
    \/ Reverse

Spec == Init /\ [][Next]_vars

TypeOK ==
    /\ elements \in SeqsUpTo(MaxLen)
    /\ focused \in 0..USIZE_MAX
    /\ Len(ret) <= 1

\* ---- properties ----
ValidFocus(s) == s.focused < Len(s.elements)
NonEmpty(s) == Len(s.elements) > 0
AllSame(args) == \A i \in 1..Len(args) : args[i] = args[1]
Some(s, i) == <<s.elements[i + 1]>>

\* C1: whenever len() > 0 the focused index satisfies 0 <= focused_index() < len(),
\* after any sequence of the public operations
C1_FocusedInRange ==
    Len(elements) > 0 => (0 <= focused /\ focused < Len(elements))

\* the selector s matches an element of the ring s0, at index MatchIndex
Matches(s0, s) ==
    CASE s.kind = "Focused" -> NonEmpty(s0)
      [] s.kind = "Index" -> s.idx < Len(s0.elements)
      [] s.kind = "Condition" -> \E i \in 1..Len(s0.elements) : s0.elements[i] \in s.cond
      [] OTHER -> FALSE
MatchIndex(s0, s) ==
    CASE s.kind = "Focused" -> s0.focused
      [] s.kind = "Index" -> s.idx
      [] OTHER -> CHOOSE i \in 0..(Len(s0.elements) - 1) :
                    /\ s0.elements[i + 1] \in s.cond
                    /\ \A j \in 0..(i - 1) : s0.elements[j + 1] \notin s.cond

\* C2: focus(selector) on a match sets focused to the matched element's index and
\* returns that element; on no match it returns nothing and leaves focused_index()
\* as it was before the call
C2_FocusSetsOrLeaves ==
    last.op = "focus" =>
        IF Matches(pre, last.sel)
        THEN /\ focused = MatchIndex(pre, last.sel)
             /\ focused < Len(elements)
             /\ ret = <<elements[focused + 1]>>
        ELSE /\ ret = << >>
             /\ focused = pre.focused

\* C3: remove(selector) with a selector that matches no element returns nothing,
\* removes nothing and leaves focused_index() and the element sequence unchanged
C3_RemoveNoMatchIsNoop ==
    (last.op = "remove" /\ ~Matches(pre, last.sel)) =>
        /\ ret = << >>
        /\ elements = pre.elements
        /\ focused = pre.focused

\* C4: on a ring of length n >= 2 focused at its last index n-1, remove(Focused)
\* returns the element focused() returned before the call and leaves a ring of
\* length n-1 focused at index n-2; repeated remove(Focused) keeps the focus in
\* range until the ring is empty, after which focused() and remove(Focused)
\* return nothing
C4_RemoveFocusedAtEnd ==
    /\ (/\ last.op = "remove" /\ last.sel.kind = "Focused"
        /\ Len(pre.elements) >= 2 /\ pre.focused = Len(pre.elements) - 1) =>
            /\ fault = "none"
            /\ ret = focused_elem(pre.elements, pre.focused)
            /\ ret # << >>
            /\ Len(elements) = Len(pre.elements) - 1
            /\ focused = Len(pre.elements) - 2
    /\ (/\ chain.op = "remove"
        /\ Len(chain.start.elements) >= 2
        /\ chain.start.focused = Len(chain.start.elements) - 1) =>
            LET n == Len(chain.start.elements)
                k == Len(chain.args)
            IN /\ fault = "none"
               /\ k <= n =>
                    /\ Len(elements) = n - k
                    /\ ret = Some(chain.start, n - k)
                    /\ Len(elements) > 0 => focused < Len(elements)
               /\ k > n =>
                    /\ elements = << >>
                    /\ focused_elem(pre.elements, pre.focused) = << >>
                    /\ focused_elem(elements, focused) = << >>
                    /\ ret = << >>

C4_Witness ==
    /\ chain.op = "remove"
    /\ Len(chain.start.elements) = 3
    /\ chain.start.focused = 2
    /\ Len(chain.args) = 4
    /\ ret = << >>
    /\ fault = "none"

\* C5: on a non-empty ring with a valid focus, the element focused() returned just
\* before drag_focused(d) is the element drag_focused(d) returns and the element
\* focused() returns just after it
C5_DragKeepsFocusedElement ==
    (last.op = "drag_focused" /\ NonEmpty(pre) /\ ValidFocus(pre)) =>
        /\ fault = "none"
        /\ ret = focused_elem(pre.elements, pre.focused)
        /\ ret # << >>
        /\ focused_elem(elements, focused) = ret

C5_Witness ==
    /\ last.op = "drag_focused"
    /\ pre = Snap(<<1, 2, 1>>, 1)
    /\ last.dir = "Backward"
    /\ elements = <<2, 1, 1>>
    /\ focused = 0
    /\ ret = <<2>>

\* C6: on a ring of length n >= 1 with a valid focus, n successive drag_focused(d)
\* calls each return the originally focused element and leave the element sequence
\* and focused_index() as they were before the first call
C6_DragFullCycle ==
    (/\ chain.op = "drag_focused"
     /\ NonEmpty(chain.start) /\ ValidFocus(chain.start)
     /\ AllSame(chain.args)
     /\ Len(chain.args) <= Len(chain.start.elements)) =>
        /\ fault = "none"
        /\ ret = focused_elem(chain.start.elements, chain.start.focused)
        /\ Len(chain.args) = Len(chain.start.elements) =>
            /\ elements = chain.start.elements
            /\ focused = chain.start.focused

C6_Witness ==
    /\ chain.op = "drag_focused"
    /\ chain.args = <<"Forward", "Forward", "Forward">>
    /\ chain.start = Snap(<<1, 2, 2>>, 0)
    /\ pre = Snap(<<2, 2, 1>>, 2)
    /\ elements = <<1, 2, 2>>
    /\ focused = 0
    /\ ret = <<1>>

\* C7: on a non-empty ring with a valid focus, cycle_focus(Forward) sets focused to
\* (focused+1) mod len and cycle_focus(Backward) to (focused-1+len) mod len, returns
\* the element at the new focused index, and the element sequence is the same after
\* any number of cycle_focus calls
C7_CycleFocusWraps ==
    /\ (last.op = "cycle_focus" /\ NonEmpty(pre) /\ ValidFocus(pre)) =>
        LET n == Len(pre.elements)
        IN /\ fault = "none"
           /\ focused = IF last.dir = "Forward"
                        THEN (pre.focused + 1) % n
                        ELSE (pre.focused - 1 + n) % n
           /\ ret = <<pre.elements[focused + 1]>>
           /\ elements = pre.elements
    /\ chain.op = "cycle_focus" => elements = chain.start.elements

C7_Witness ==
    /\ chain.op = "cycle_focus"
    /\ chain.args = <<"Backward", "Backward">>
    /\ chain.start = Snap(<<1, 2, 1>>, 0)
    /\ pre.focused = 2
    /\ focused = 1
    /\ ret = <<2>>

\* C8: rotate(Forward) moves the last element to the front (every element's index
\* increases by one, wrapping), rotate(Backward) moves the first element to the
\* back; focused_index() is unchanged, so the focused slot holds the element that
\* was shifted into it; on an empty ring rotate changes nothing
C8_RotateShifts ==
    last.op = "rotate" =>
        LET n == Len(pre.elements)
        IN /\ fault = "none"
           /\ focused = pre.focused
           /\ Len(elements) = n
           /\ n = 0 => elements = pre.elements
           /\ (n > 0 /\ last.dir = "Forward") =>
                /\ elements[1] = pre.elements[n]
                /\ \A i \in 0..(n - 1) : elements[((i + 1) % n) + 1] = pre.elements[i + 1]
                /\ ValidFocus(pre) =>
                     focused_elem(elements, focused) = Some(pre, (focused - 1 + n) % n)
           /\ (n > 0 /\ last.dir = "Backward") =>
                /\ elements[n] = pre.elements[1]
                /\ \A i \in 1..(n - 1) : elements[i] = pre.elements[i + 1]
                /\ ValidFocus(pre) =>
                     focused_elem(elements, focused) = Some(pre, (focused + 1) % n)

C8_Witness ==
    /\ last.op = "rotate"
    /\ last.dir = "Forward"
    /\ pre = Snap(<<1, 1, 2>>, 0)
    /\ elements = <<2, 1, 1>>
    /\ focused = 0

\* C9: on a non-empty ring, rotate(Forward) followed by rotate(Backward) restores the
\* original element sequence and the original focused_index()
C9_RotateForwardBackward ==
    (/\ chain.op = "rotate"
     /\ chain.args = <<"Forward", "Backward">>
     /\ NonEmpty(chain.start)) =>
        /\ fault = "none"
        /\ elements = chain.start.elements
        /\ focused = chain.start.focused

C9_Witness ==
    /\ chain.op = "rotate"
    /\ chain.args = <<"Forward", "Backward">>
    /\ chain.start = Snap(<<1, 1, 2>>, 0)
    /\ pre.elements = <<2, 1, 1>>
    /\ elements = <<1, 1, 2>>

\* C10: on a non-empty ring with a valid focus, would_wrap(direction) is true iff
\* (focused = 0 and direction is Backward) or (focused = len-1 and direction is
\* Forward), and the call changes neither the sequence nor focused
C10_WouldWrapAtEnds ==
    (last.op = "would_wrap" /\ NonEmpty(pre) /\ ValidFocus(pre)) =>
        /\ fault = "none"
        /\ retBool <=> (\/ pre.focused = 0 /\ last.dir = "Backward"
                        \/ pre.focused = Len(pre.elements) - 1 /\ last.dir = "Forward")
        /\ elements = pre.elements
        /\ focused = pre.focused

C10_Witness ==
    /\ last.op = "would_wrap"
    /\ last.dir = "Forward"
    /\ Len(pre.elements) = 3
    /\ pre.focused = 2
    /\ retBool

\* C11: on an empty ring would_wrap(direction) is false for both directions
C11_WouldWrapEmptyIsFalse ==
    (last.op = "would_wrap" /\ Len(pre.elements) = 0) =>
        /\ fault = "none"
        /\ retBool = FALSE

\* C12: on a ring of length <= 1, cycle_focus(d) and drag_focused(d) leave the
\* element sequence and focused_index() as they were; on an empty ring both return
\* nothing, on a one-element ring both return that element
C12_ShortRingNoChange ==
    (last.op \in {"cycle_focus", "drag_focused"} /\ Len(pre.elements) <= 1) =>
        /\ fault = "none"
        /\ elements = pre.elements
        /\ focused = pre.focused
        /\ ret = IF Len(pre.elements) = 0 THEN << >> ELSE <<pre.elements[1]>>

\* C13: no ring operation is fatal: from every reachable state and for every
\* argument the operation completes without a panic, and malformed input (an
\* out-of-range index, a selector with no match, an empty ring) changes nothing
\* and returns nothing
C13_NoOperationIsFatal ==
    /\ fault = "none"
    /\ (last.op = "insert" /\ last.index > Len(pre.elements)) =>
            elements = pre.elements /\ focused = pre.focused
    /\ (last.op \in {"element", "element_mut", "focus", "remove"}
            /\ ~Matches(pre, last.sel)) =>
            ret = << >> /\ elements = pre.elements /\ focused = pre.focused
    /\ (last.op \in {"cycle_focus", "drag_focused", "rotate"}
            /\ Len(pre.elements) = 0) =>
            ret = << >> /\ elements = pre.elements /\ focused = pre.focused

\* the selector s designates an element of the ring s0 for remove: as Matches, and
\* for Focused there is an element at focused
Removes(s0, s) == Matches(s0, s) /\ (s.kind = "Focused" => ValidFocus(s0))

\* C14: remove(selector) with a matching selector removes exactly one element (the
\* first in ring order satisfying p for Condition(p), the one at i for Index(i),
\* the one at focused for Focused), returns it, decreases len() by one and keeps
\* every other element in its previous relative order
C14_RemoveTakesOneElement ==
    (last.op = "remove" /\ Removes(pre, last.sel)) =>
        LET i == MatchIndex(pre, last.sel)
            n == Len(pre.elements)
        IN /\ fault = "none"
           /\ ret = Some(pre, i)
           /\ Len(elements) = n - 1
           /\ \A j \in 0..(i - 1) : elements[j + 1] = pre.elements[j + 1]
           /\ \A j \in i..(n - 2) : elements[j + 1] = pre.elements[j + 2]

\* C18: after remove(selector) has removed a matched element, focused is one less
\* than before exactly when the old focused is > 0 and >= the new length, and is
\* otherwise what it was before the call
C18_RemoveClampsPastEnd ==
    (last.op = "remove" /\ Removes(pre, last.sel) /\ fault = "none") =>
        focused = IF pre.focused > 0 /\ pre.focused >= Len(elements)
                  THEN pre.focused - 1
                  ELSE pre.focused

\* C20: on a ring with a valid focus, when remove(selector) removes an element at
\* an index strictly greater than the focused index, the focused index and the
\* element returned by focused() are the same after the call as before
C20_RemoveBehindFocusKeepsFocus ==
    (/\ last.op = "remove"
     /\ ValidFocus(pre)
     /\ Removes(pre, last.sel)
     /\ MatchIndex(pre, last.sel) > pre.focused) =>
        /\ focused = pre.focused
        /\ focused_elem(elements, focused) = focused_elem(pre.elements, pre.focused)

\* C15: the external-identifier selector (WinId) is inert: element, element_mut,
\* focus and remove called with it return nothing for every ring state and every
\* identifier, and leave the element sequence and focused unchanged
C15_WinIdIsInert ==
    (last.op \in {"element", "element_mut", "focus", "remove"}
        /\ last.sel.kind = "WinId") =>
        /\ fault = "none"
        /\ ret = << >>
        /\ elements = pre.elements
        /\ focused = pre.focused

C15_Witness ==
    /\ last.op = "focus"
    /\ last.sel = Sel("WinId", 1, {})
    /\ pre = Snap(<<1, 2, 1>>, 2)
    /\ elements = <<1, 2, 1>>
    /\ focused = 2
    /\ ret = << >>

\* C16: insert(index, element) with index <= len places the element at position
\* index, moves every element previously at a position >= index back by one,
\* keeps the elements before index in place, increases len() by one and leaves
\* focused unchanged
C16_InsertShiftsKeepsFocused ==
    (last.op = "insert" /\ last.index <= Len(pre.elements)) =>
        LET n == Len(pre.elements)
            i == last.index
        IN /\ fault = "none"
           /\ Len(elements) = n + 1
           /\ elements[i + 1] = last.elem
           /\ \A j \in 0..(i - 1) : elements[j + 1] = pre.elements[j + 1]
           /\ \A j \in i..(n - 1) : elements[j + 2] = pre.elements[j + 1]
           /\ focused = pre.focused

C16_Witness ==
    /\ last.op = "insert"
    /\ last.index = 0
    /\ last.elem = 2
    /\ pre = Snap(<<1, 1>>, 1)
    /\ elements = <<2, 1, 1>>
    /\ focused = 1

\* C17: Direction::reverse is a total involution: reverse(Forward) = Backward,
\* reverse(Backward) = Forward, and reversing the result gives the direction back
C17_ReverseInvolution ==
    last.op = "reverse" =>
        /\ retDir \in Directions
        /\ last.dir = "Forward" => retDir = "Backward"
        /\ last.dir = "Backward" => retDir = "Forward"
        /\ reverse(retDir) = last.dir

C17_Witness ==
    /\ last.op = "reverse"
    /\ last.dir = "Backward"
    /\ retDir = "Forward"

\* C19: drag_focused(d) on a ring of length >= 2 with a valid focus: with the focus
\* at index 0 and d Backward the sequence becomes its rotation Backward (first
\* element to the back); with the focus at the last index and d Forward its
\* rotation Forward (last element to the front); otherwise the elements at focused
\* and at the adjacent index in direction d are exchanged and all others stay; the
\* new focused index is the wrapping successor of the old one in direction d
C19_DragSequence ==
    (last.op = "drag_focused" /\ Len(pre.elements) >= 2 /\ ValidFocus(pre)) =>
        LET n == Len(pre.elements)
            f == pre.focused
            old == pre.elements
            adj == IF last.dir = "Forward" THEN f + 1 ELSE f - 1
        IN /\ fault = "none"
           /\ Len(elements) = n
           /\ focused = IF last.dir = "Forward" THEN (f + 1) % n ELSE (f - 1 + n) % n
           /\ IF f = 0 /\ last.dir = "Backward"
              THEN /\ elements[n] = old[1]
                   /\ \A i \in 1..(n - 1) : elements[i] = old[i + 1]
              ELSE IF f = n - 1 /\ last.dir = "Forward"
                   THEN /\ elements[1] = old[n]
                        /\ \A i \in 2..n : elements[i] = old[i - 1]
                   ELSE /\ elements[f + 1] = old[adj + 1]
                        /\ elements[adj + 1] = old[f + 1]
                        /\ \A i \in 1..n : i \notin {f + 1, adj + 1} => elements[i] = old[i]

C19_Witness ==
    /\ last.op = "drag_focused"
    /\ last.dir = "Forward"
    /\ pre = Snap(<<1, 1, 2>>, 2)
    /\ elements = <<2, 1, 1>>
    /\ focused = 0
====
